---- MODULE Spec2Model ----
(***************************************************************************)
(* Health-check sidecars of falkordb-omnistrate.                           *)
(*                                                                         *)
(*   healthcheck_rs/src/main.rs                 /liveness /readiness       *)
(*                                              /startup  (variant "main") *)
(*   falkordb-node/healthcheck_rs/src/main.rs   /healthcheck               *)
(*                                              (variant "node")           *)
(*                                                                         *)
(* Texts (INFO, CLUSTER INFO, PING replies) are sequences of characters,   *)
(* so that str::contains and the two regular expressions are computed on   *)
(* the text as the code computes them.  "CR" and "LF" stand for the two    *)
(* line-terminator characters.                                             *)
(*                                                                         *)
(* A handler runs on one connection and shares no state with any other     *)
(* handler, so requests are modelled one at a time.                        *)
(***************************************************************************)
EXTENDS Integers, Sequences, FiniteSets, TLC

\* Largest value the numeric INFO fields (loading, async_loading,
\* master_sync_in_progress) take in the enumerated snapshots.
MaxFieldValue == 1

\* resolve_host: Duration::from_secs(300)
TimeoutSecs == 300

\* a field that the INFO text does not contain
Absent == -1

-----------------------------------------------------------------------------
(* String literals of the source *)

S_cluster_enabled_1 == <<"c", "l", "u", "s", "t", "e", "r", "_", "e", "n", "a", "b", "l", "e", "d", ":", "1">>
S_cluster_state_ok == <<"c", "l", "u", "s", "t", "e", "r", "_", "s", "t", "a", "t", "e", ":", "o", "k">>
S_PONG == <<"P", "O", "N", "G">>
S_loading_0 == <<"l", "o", "a", "d", "i", "n", "g", ":", "0">>
S_master_link_status_up == <<"m", "a", "s", "t", "e", "r", "_", "l", "i", "n", "k", "_", "s", "t", "a", "t", "u", "s", ":", "u", "p">>
S_master_sync_in_progress_0 == <<"m", "a", "s", "t", "e", "r", "_", "s", "y", "n", "c", "_", "i", "n", "_", "p", "r", "o", "g", "r", "e", "s", "s", ":", "0">>
S_role_colon == <<"r", "o", "l", "e", ":">>
S_master_sync_in_progress_colon == <<"m", "a", "s", "t", "e", "r", "_", "s", "y", "n", "c", "_", "i", "n", "_", "p", "r", "o", "g", "r", "e", "s", "s", ":">>
S_master == <<"m", "a", "s", "t", "e", "r">>
S_zero == <<"0">>

(* Texts the backend produces *)

K_loading == <<"l", "o", "a", "d", "i", "n", "g", ":">>
K_async_loading == <<"a", "s", "y", "n", "c", "_", "l", "o", "a", "d", "i", "n", "g", ":">>
K_master_link_status == <<"m", "a", "s", "t", "e", "r", "_", "l", "i", "n", "k", "_", "s", "t", "a", "t", "u", "s", ":">>
K_cluster_enabled == <<"c", "l", "u", "s", "t", "e", "r", "_", "e", "n", "a", "b", "l", "e", "d", ":">>
V_slave == <<"s", "l", "a", "v", "e">>
V_up == <<"u", "p">>
V_down == <<"d", "o", "w", "n">>
T_cluster_state_fail == <<"c", "l", "u", "s", "t", "e", "r", "_", "s", "t", "a", "t", "e", ":", "f", "a", "i", "l">>
T_OK == <<"O", "K">>
CRLF == <<"CR", "LF">>

Digits == <<"0", "1", "2", "3", "4", "5", "6", "7", "8", "9">>

DigitChars == {Digits[i] : i \in 1..10}

\* the class \w of the regex crate, restricted to the characters in use
WordChars ==
    DigitChars \cup
    {"a", "b", "c", "d", "e", "f", "g", "h", "i", "j", "k", "l", "m", "n",
     "o", "p", "q", "r", "s", "t", "u", "v", "w", "x", "y", "z", "_",
     "O", "K", "P", "N", "G"}

-----------------------------------------------------------------------------
(* Text primitives *)

\* p occurs in s at position i
MatchAt(s, p, i) ==
    /\ i + Len(p) - 1 <= Len(s)
    /\ \A j \in 1..Len(p) : s[i + j - 1] = p[j]

\* str::contains
Contains(s, p) == \E i \in 1..(Len(s) + 1) : MatchAt(s, p, i)

\* length of the longest run of characters of class cls starting at s[i]
RECURSIVE RunLen(_, _, _)
RunLen(s, cls, i) ==
    IF i <= Len(s) /\ s[i] \in cls THEN 1 + RunLen(s, cls, i + 1) ELSE 0

\* Regex::captures for a pattern  <prefix>(<cls>+) : group 1 of the leftmost
\* match, or <<>> when the pattern does not match (group 1 is never empty
\* when it matches)
Capture(s, prefix, cls) ==
    LET starts == {i \in 1..Len(s) :
                      MatchAt(s, prefix, i)
                      /\ RunLen(s, cls, i + Len(prefix)) > 0}
    IN  IF starts = {} THEN <<>>
        ELSE LET i == CHOOSE k \in starts : \A m \in starts : k <= m
                 b == i + Len(prefix)
             IN  SubSeq(s, b, b + RunLen(s, cls, b) - 1)

\* decimal rendering of a natural number
RECURSIVE Decimal(_)
Decimal(n) ==
    IF n < 10 THEN <<Digits[n + 1]>>
    ELSE Decimal(n \div 10) \o <<Digits[(n % 10) + 1]>>

-----------------------------------------------------------------------------
(* The backend, as one probe sees it *)

FieldValues == {Absent} \cup (0..MaxFieldValue)

\* the fields of an INFO reply that the enumerated snapshots vary
Snapshots ==
    [loading : FieldValues,
     async_loading : {Absent, 0},
     role : {"none", "master", "slave"},
     master_link_status : {"none", "up", "down"},
     master_sync_in_progress : FieldValues,
     cluster_enabled : {Absent, 1}]

\* INFO of a sentinel process: none of the fields above
SentinelSnapshot ==
    [loading |-> Absent, async_loading |-> Absent, role |-> "none",
     master_link_status |-> "none", master_sync_in_progress |-> Absent,
     cluster_enabled |-> Absent]

NumLine(key, v) == IF v = Absent THEN <<>> ELSE key \o Decimal(v) \o CRLF

\* the INFO text of a snapshot: key:value lines in the server's order
InfoText(s) ==
    NumLine(K_loading, s.loading)
    \o NumLine(K_async_loading, s.async_loading)
    \o (CASE s.role = "master" -> S_role_colon \o S_master \o CRLF
          [] s.role = "slave" -> S_role_colon \o V_slave \o CRLF
          [] OTHER -> <<>>)
    \o (CASE s.master_link_status = "up" -> K_master_link_status \o V_up \o CRLF
          [] s.master_link_status = "down" -> K_master_link_status \o V_down \o CRLF
          [] OTHER -> <<>>)
    \o NumLine(S_master_sync_in_progress_colon, s.master_sync_in_progress)
    \o NumLine(K_cluster_enabled, s.cluster_enabled)

\* redis::ErrorKind of a failed command
ErrorKinds == {"BusyLoadingError", "MasterDown", "IoError", "ExtensionError"}

OkReply(t) == [ok |-> TRUE, text |-> t, kind |-> "none"]
ErrReply(k) == [ok |-> FALSE, text |-> <<>>, kind |-> k]
NoReply == ErrReply("IoError")

PingReplies == {OkReply(S_PONG), OkReply(T_OK)} \cup {ErrReply(k) : k \in ErrorKinds}

ClusterInfoReplies(s) ==
    IF s.cluster_enabled = 1
    THEN {OkReply(S_cluster_state_ok \o CRLF), OkReply(T_cluster_state_fail \o CRLF),
          ErrReply("BusyLoadingError"), ErrReply("IoError")}
    ELSE {ErrReply("ResponseError")}

MkBackend(c, io, s, cl, p) ==
    [conn |-> c, infoOk |-> io, snap |-> s, cluster |-> cl, ping |-> p]

\* no backend has been contacted
NoBackend == MkBackend(FALSE, FALSE, SentinelSnapshot, NoReply, NoReply)

\* what the backend does during one probe: whether the connection (with
\* authentication) is established, its reply to INFO, to CLUSTER INFO and to
\* PING
Backends(sentinel) ==
    {NoBackend}
    \cup {MkBackend(TRUE, FALSE, SentinelSnapshot, NoReply, p) : p \in PingReplies}
    \cup IF sentinel
         THEN {MkBackend(TRUE, TRUE, SentinelSnapshot, ErrReply("ResponseError"), p) :
                  p \in PingReplies}
         ELSE UNION {{MkBackend(TRUE, TRUE, s, cl, p) :
                         cl \in ClusterInfoReplies(s), p \in PingReplies} :
                     s \in Snapshots}

-----------------------------------------------------------------------------
(* The checks.  A check returns the Result<bool, RedisError> of its function *)
(* ("OkTrue", "OkFalse", "Err") together with the commands it sent on the    *)
(* connection, in order.  The parameter con is the backend behind the        *)
(* connection.                                                               *)

Ret(r, c) == [res |-> r, cmds |-> c]

After(c, r) == [res |-> r.res, cmds |-> c \o r.cmds]

OkBool(v) == IF v THEN "OkTrue" ELSE "OkFalse"

check_sentinel(con) ==
    Ret(IF ~con.ping.ok THEN "Err" ELSE OkBool(con.ping.text = S_PONG),
        <<"PING">>)

\* the captured role, <<>> for Err("Role not found")
get_redis_role(db_info) == Capture(db_info, S_role_colon, WordChars)

\* mutant: the test of cluster_state:ok negated
get_status_from_cluster_node_liveness_Negated(db_info, con) ==
    Ret(OkBool(IF con.cluster.ok
               THEN ~Contains(con.cluster.text, S_cluster_state_ok)
               ELSE con.cluster.kind = "BusyLoadingError"),
        <<"CLUSTER INFO">>)

get_status_from_cluster_node_liveness(db_info, con) ==
    Ret(OkBool(IF con.cluster.ok
               THEN Contains(con.cluster.text, S_cluster_state_ok)
               ELSE con.cluster.kind = "BusyLoadingError"),
        <<"CLUSTER INFO">>)

get_status_from_cluster_node_readiness(db_info, con) ==
    Ret(OkBool(con.cluster.ok /\ Contains(con.cluster.text, S_cluster_state_ok)),
        <<"CLUSTER INFO">>)

get_status_from_master_liveness(con) ==
    Ret(OkBool(IF con.ping.ok
               THEN Contains(con.ping.text, S_PONG)
               ELSE con.ping.kind = "BusyLoadingError"),
        <<"PING">>)

get_status_from_master_readiness(db_info, con) ==
    Ret(OkBool(/\ con.ping.ok
               /\ Contains(con.ping.text, S_PONG)
               /\ Contains(db_info, S_loading_0)),
        <<"PING">>)

get_status_from_slave_liveness(con) ==
    Ret(OkBool(IF con.ping.ok
               THEN Contains(con.ping.text, S_PONG)
               ELSE con.ping.kind \in {"BusyLoadingError", "MasterDown"}),
        <<"PING">>)

get_status_from_slave_readiness(db_info, con) ==
    Ret(OkBool(/\ con.ping.ok
               /\ Contains(con.ping.text, S_PONG)
               /\ Contains(db_info, S_loading_0)
               /\ Contains(db_info, S_master_link_status_up)
               /\ Contains(db_info, S_master_sync_in_progress_0)),
        <<"PING">>)

\* mutant: a missing role is taken for a replica instead of being returned
\* as an error
check_node_liveness_RoleDefault(db_info, con) ==
    LET role == get_redis_role(db_info)
    IN  IF role = S_master THEN get_status_from_master_liveness(con)
        ELSE get_status_from_slave_liveness(con)

check_node_liveness(db_info, con) ==
    LET role == get_redis_role(db_info)
    IN  IF role = <<>> THEN Ret("Err", <<>>)
        ELSE IF role = S_master THEN get_status_from_master_liveness(con)
        ELSE get_status_from_slave_liveness(con)

check_node_readiness(db_info, con) ==
    LET role == get_redis_role(db_info)
    IN  IF role = <<>> THEN Ret("Err", <<>>)
        ELSE IF role = S_master THEN get_status_from_master_readiness(db_info, con)
        ELSE get_status_from_slave_readiness(db_info, con)

check_handler_liveness(is_sentinel, con) ==
    IF ~con.conn THEN Ret("Err", <<>>)
    ELSE IF is_sentinel THEN check_sentinel(con)
    ELSE IF ~con.infoOk THEN Ret("Err", <<"INFO">>)
    ELSE LET db_info == InfoText(con.snap)
         IN  After(<<"INFO">>,
                   IF Contains(db_info, S_cluster_enabled_1)
                   THEN get_status_from_cluster_node_liveness(db_info, con)
                   ELSE check_node_liveness(db_info, con))

\* mutant: INFO is sent before the sentinel test
check_handler_readiness_InfoFirst(is_sentinel, con) ==
    IF ~con.conn THEN Ret("Err", <<>>)
    ELSE IF ~con.infoOk THEN Ret("Err", <<"INFO">>)
    ELSE LET db_info == InfoText(con.snap)
         IN  After(<<"INFO">>,
                   IF is_sentinel THEN check_sentinel(con)
                   ELSE IF Contains(db_info, S_cluster_enabled_1)
                   THEN get_status_from_cluster_node_readiness(db_info, con)
                   ELSE check_node_readiness(db_info, con))

check_handler_readiness(is_sentinel, con) ==
    IF ~con.conn THEN Ret("Err", <<>>)
    ELSE IF is_sentinel THEN check_sentinel(con)
    ELSE IF ~con.infoOk THEN Ret("Err", <<"INFO">>)
    ELSE LET db_info == InfoText(con.snap)
         IN  After(<<"INFO">>,
                   IF Contains(db_info, S_cluster_enabled_1)
                   THEN get_status_from_cluster_node_readiness(db_info, con)
                   ELSE check_node_readiness(db_info, con))

\* falkordb-node: the part of health_check_handler after the URL is built
health_check_handler(con) ==
    IF ~con.conn THEN Ret("Err", <<>>)
    ELSE IF ~con.infoOk THEN Ret("Err", <<"INFO">>)
    ELSE LET db_info == InfoText(con.snap)
             role == Capture(db_info, S_role_colon, WordChars)
             master_sync_in_progress ==
                 Capture(db_info, S_master_sync_in_progress_colon, DigitChars)
         IN  Ret(IF role = <<>> THEN "OkFalse"
                 ELSE IF role = S_master THEN "OkTrue"
                 ELSE IF master_sync_in_progress = <<>> THEN "OkFalse"
                 ELSE OkBool(master_sync_in_progress = S_zero),
                 <<"INFO">>)

-----------------------------------------------------------------------------
(* The probe server *)

VARIABLES
    variant,      \* which program runs: "main" or "node"
    is_sentinel,  \* main: args[1] == "sentinel"
    tls,          \* env TLS == "true"
    host_set,     \* env NODE_HOST (main) / NODE_EXTERNAL_DNS (node) is set
    skip_all,     \* the administrator's skip-all / global disable flag
    server,       \* "init", "listening", "exited"
    phase,        \* position of the request handler
    route,        \* route of the request being handled
    elapsed,      \* resolve_host: seconds slept since start_time
    backend,      \* what the backend did during the probe
    outcome,      \* what the check returned: "OkTrue", "OkFalse", "Err", "Panic"
    cmds,         \* commands sent on the connection during the probe
    response      \* the response sent for the request

vars == <<variant, is_sentinel, tls, host_set, skip_all, server, phase, route,
          elapsed, backend, outcome, cmds, response>>

config == <<variant, is_sentinel, tls, host_set, skip_all>>

NoResponse == [status |-> 0, body |-> "", panicked |-> FALSE]

Ok200 == [status |-> 200, body |-> "OK", panicked |-> FALSE]

NotReady500 == [status |-> 500, body |-> "Not ready", panicked |-> FALSE]

NotFound404 == [status |-> 404, body |-> "", panicked |-> FALSE]

Panic500 == [status |-> 500, body |-> "Internal Server Error", panicked |-> TRUE]

ProbeRoutes == IF variant = "main" THEN {"liveness", "readiness"} ELSE {"healthcheck"}

Init ==
    /\ variant \in {"main", "node"}
    /\ is_sentinel \in (IF variant = "main" THEN BOOLEAN ELSE {FALSE})
    /\ tls \in BOOLEAN
    /\ host_set \in (IF tls THEN BOOLEAN ELSE {TRUE})
    /\ skip_all \in BOOLEAN
    /\ server = "init"
    /\ phase = "idle"
    /\ route = "none"
    /\ elapsed = 0
    /\ backend = NoBackend
    /\ outcome = "none"
    /\ cmds = <<>>
    /\ response = NoResponse

\* Server::new(addr, handler).unwrap() binds the port; server.run()
Bind ==
    /\ server = "init"
    /\ server' = "listening"
    /\ UNCHANGED <<config, phase, route, elapsed, backend, outcome, cmds, response>>

\* Server::new fails (port in use): unwrap panics in main, the process exits
BindFail ==
    /\ server = "init"
    /\ server' = "exited"
    /\ UNCHANGED <<config, phase, route, elapsed, backend, outcome, cmds, response>>

Ready == server = "listening" /\ phase \in {"idle", "responded"}

Answer(r, resp) ==
    /\ route' = r
    /\ phase' = "responded"
    /\ response' = resp
    /\ elapsed' = 0
    /\ backend' = NoBackend
    /\ outcome' = "none"
    /\ cmds' = <<>>
    /\ UNCHANGED <<config, server>>

\* (GET) (/startup) => Response::text("OK")
RouteStartup ==
    /\ Ready
    /\ variant = "main"
    /\ Answer("startup", Ok200)

\* _ => Response::empty_404()
RouteNotFound ==
    /\ Ready
    /\ Answer("other", NotFound404)

\* a probe route is matched and its check starts
Accept ==
    /\ Ready
    /\ \E r \in ProbeRoutes : route' = r
    /\ phase' = "url"
    /\ elapsed' = 0
    /\ backend' = NoBackend
    /\ outcome' = "none"
    /\ cmds' = <<>>
    /\ response' = NoResponse
    /\ UNCHANGED <<config, server>>

\* the response for what the handler did.  A handler that panics (in node:
\* unwrap of an Err) is answered by rouille with a 500 of its own.
ResponseOf(v, o) ==
    CASE o = "OkTrue" -> Ok200
      [] o = "OkFalse" -> NotReady500
      [] o = "Err" -> IF v = "main" THEN NotReady500 ELSE Panic500
      [] OTHER -> Panic500

\* get_redis_url, TLS unset or not "true": redis://...@localhost
UrlPlain ==
    /\ phase = "url"
    /\ ~tls
    /\ phase' = "connecting"
    /\ UNCHANGED <<config, server, route, elapsed, backend, outcome, cmds, response>>

\* env::var("NODE_HOST").unwrap() / env::var("NODE_EXTERNAL_DNS").unwrap()
UrlHostUnset ==
    /\ phase = "url"
    /\ tls
    /\ ~host_set
    /\ phase' = "responded"
    /\ outcome' = "Panic"
    /\ response' = ResponseOf(variant, "Panic")
    /\ UNCHANGED <<config, server, route, elapsed, backend, cmds>>

\* main, TLS: get_redis_url calls resolve_host; start_time = Instant::now()
UrlResolve ==
    /\ phase = "url"
    /\ tls
    /\ host_set
    /\ variant = "main"
    /\ phase' = "resolving"
    /\ elapsed' = 0
    /\ UNCHANGED <<config, server, route, backend, outcome, cmds, response>>

\* node, TLS: rediss://...@NODE_EXTERNAL_DNS, no resolution
UrlTlsNode ==
    /\ phase = "url"
    /\ tls
    /\ host_set
    /\ variant = "node"
    /\ phase' = "connecting"
    /\ UNCHANGED <<config, server, route, elapsed, backend, outcome, cmds, response>>

\* resolve_host: lookup_host fails, "Host not resolved yet!", sleep 1 s
ResolveRetry ==
    /\ phase = "resolving"
    /\ elapsed < TimeoutSecs
    /\ elapsed' = elapsed + 1
    /\ UNCHANGED <<config, server, phase, route, backend, outcome, cmds, response>>

\* resolve_host: lookup_host succeeds, the loop ends and the assertion holds
ResolveOk ==
    /\ phase = "resolving"
    /\ elapsed < TimeoutSecs
    /\ phase' = "connecting"
    /\ elapsed' = 0
    /\ UNCHANGED <<config, server, route, backend, outcome, cmds, response>>

\* resolve_host: the loop ends unresolved, assert!(resolved, ...) panics
ResolveTimeout ==
    /\ phase = "resolving"
    /\ elapsed >= TimeoutSecs
    /\ phase' = "responded"
    /\ outcome' = "Panic"
    /\ response' = ResponseOf(variant, "Panic")
    /\ UNCHANGED <<config, server, route, elapsed, backend, cmds>>

\* the check of the route, from Client::open to its return value
Check(r, con) ==
    CASE r = "liveness" -> check_handler_liveness(is_sentinel, con)
      [] r = "readiness" -> check_handler_readiness(is_sentinel, con)
      [] OTHER -> health_check_handler(con)

\* the handler of a probe route from Client::open on: the check, then
\* main: liveness_check(..).unwrap_or_else(|_| false), OK or Not ready
\* node: health_check_handler().unwrap(), OK or Not ready
RunCheck ==
    /\ phase = "connecting"
    /\ \E con \in Backends(is_sentinel) :
          LET r == Check(route, con)
          IN  /\ backend' = con
              /\ outcome' = r.res
              /\ cmds' = r.cmds
              /\ response' = ResponseOf(variant, r.res)
    /\ phase' = "responded"
    /\ UNCHANGED <<config, server, route, elapsed>>

Next ==
    \/ Bind
    \/ BindFail
    \/ RouteStartup
    \/ RouteNotFound
    \/ Accept
    \/ UrlPlain
    \/ UrlHostUnset
    \/ UrlResolve
    \/ UrlTlsNode
    \/ ResolveRetry
    \/ ResolveOk
    \/ ResolveTimeout
    \/ RunCheck

Spec == Init /\ [][Next]_vars

TypeOK ==
    /\ variant \in {"main", "node"}
    /\ server \in {"init", "listening", "exited"}
    /\ phase \in {"idle", "url", "resolving", "connecting", "responded"}
    /\ outcome \in {"none", "OkTrue", "OkFalse", "Err", "Panic"}
    /\ elapsed \in 0..TimeoutSecs

-----------------------------------------------------------------------------
(* Vocabulary of the properties *)

\* the handler reached the backend step and the check returned
Checked == phase = "responded" /\ outcome \in {"OkTrue", "OkFalse", "Err"}

Pass == response.status = 200

Pong == backend.ping = OkReply(S_PONG)

\* a node (not a sentinel) that answered INFO
NodeInfo == ~is_sentinel /\ backend.conn /\ backend.infoOk

Clustered == backend.snap.cluster_enabled = 1

Count(q, c) == Cardinality({i \in 1..Len(q) : q[i] = c})

Commands == {"PING", "INFO", "CLUSTER INFO"}

-----------------------------------------------------------------------------
(* C1 *)

\* C1: for a readiness probe of a non-clustered node whose INFO reports
\* role=master and whose PING returns PONG, the verdict is pass if and only
\* if the loading field of the INFO text is 0 (absent or nonzero: fail),
\* whatever the other fields are.
C1_MasterReadinessIffLoadingZero ==
    (/\ Checked
     /\ variant = "main"
     /\ route = "readiness"
     /\ NodeInfo
     /\ ~Clustered
     /\ backend.snap.role = "master"
     /\ Pong)
    => (Pass <=> backend.snap.loading = 0)

(* C2 *)

\* C2: for a readiness probe (main: /readiness, node: /healthcheck) of a
\* non-clustered node whose INFO reports role=slave and whose PING returns
\* PONG, the verdict is pass if and only if master_link_status=up and
\* master_sync_in_progress=0 and loading=0, whatever the other fields are.
C2_SlaveReadinessIffLinkSyncLoading ==
    (/\ Checked
     /\ route \in {"readiness", "healthcheck"}
     /\ NodeInfo
     /\ ~Clustered
     /\ backend.snap.role = "slave"
     /\ Pong)
    => (Pass <=> /\ backend.snap.master_link_status = "up"
                 /\ backend.snap.master_sync_in_progress = 0
                 /\ backend.snap.loading = 0)

(* C3 *)

\* the backend's ping reply indicates loading, busy or master-down
PingDegraded ==
    /\ ~backend.ping.ok
    /\ backend.ping.kind \in {"BusyLoadingError", "ExtensionError", "MasterDown"}

\* C3: for a clustered node whose CLUSTER INFO reports cluster_state=ok
\* liveness and readiness pass; when it reports another cluster_state,
\* liveness passes and readiness fails if the backend's ping reply indicates
\* loading, busy or master-down, and both fail otherwise.
C3_ClusterVerdicts ==
    (/\ Checked
     /\ variant = "main"
     /\ NodeInfo
     /\ Clustered
     /\ backend.cluster.ok)
    => IF backend.cluster.text = S_cluster_state_ok \o CRLF THEN Pass
       ELSE IF PingDegraded THEN (Pass <=> route = "liveness")
       ELSE ~Pass

(* C4 *)

\* C4: for a non-clustered node, master or replica, liveness passes if and
\* only if PING returns PONG or fails with busy-loading or master-down.
C4_NodeLivenessIffPingOrDegraded ==
    (/\ Checked
     /\ variant = "main"
     /\ route = "liveness"
     /\ NodeInfo
     /\ ~Clustered
     /\ backend.snap.role \in {"master", "slave"})
    => (Pass <=> \/ Pong
                 \/ /\ ~backend.ping.ok
                    /\ backend.ping.kind \in {"BusyLoadingError", "MasterDown"})

(* C5 *)

\* the probe met a connection error, a failed INFO, a failed or timed-out
\* PING or CLUSTER INFO that it sent, or an INFO text without a role
ProbeError ==
    \/ ~backend.conn
    \/ ~is_sentinel /\ ~backend.infoOk
    \/ Count(cmds, "PING") > 0 /\ backend.ping = ErrReply("IoError")
    \/ Count(cmds, "CLUSTER INFO") > 0 /\ backend.cluster = ErrReply("IoError")
    \/ NodeInfo /\ ~Clustered /\ backend.snap.role = "none"

\* C5: a probe that meets a backend error is answered 500 "Not ready"; the
\* handler does not panic and retries no step (name resolution, connection,
\* command) within the request.
C5_ErrorsAnswerNotReadyNoPanicNoRetry ==
    /\ (Checked /\ ProbeError) => response = NotReady500
    /\ phase = "resolving" => elapsed = 0
    /\ \A c \in Commands : Count(cmds, c) <= 1

(* C6 *)

\* C6: name resolution runs during process initialization only: no request
\* handler waits for it, a hostname that never resolves ends the process
\* before any request is answered, and without TLS nothing is resolved.
C6_ResolveAtStartupOnly ==
    /\ phase = "resolving" => server = "init"
    /\ (phase = "responded" /\ elapsed >= TimeoutSecs) => server = "exited"
    /\ ~tls => (phase # "resolving" /\ elapsed = 0)

(* C7 *)

\* C7 as stated: a probe of a non-sentinel node whose INFO text has no
\* recognizable role field is answered 500 "Not ready", clustered or not.
C7_NoRoleFailsEvenClustered ==
    (/\ Checked
     /\ NodeInfo
     /\ backend.snap.role = "none")
    => response = NotReady500

\* C7 amended: a probe of a non-sentinel node whose INFO text has no
\* recognizable role field is answered 500 "Not ready" (no panic) whenever
\* the handler consults the role: in main for a node that is not clustered,
\* in node always.
C7_NoRoleFailsUnlessClustered ==
    (/\ Checked
     /\ NodeInfo
     /\ backend.snap.role = "none"
     /\ (variant = "main" => ~Clustered))
    => response = NotReady500

C7_Witness ==
    /\ Checked
    /\ variant = "main"
    /\ route = "liveness"
    /\ NodeInfo
    /\ ~Clustered
    /\ backend.snap.role = "none"
    /\ backend.snap.loading = 0
    /\ Pong
    /\ response = NotReady500

(* C8 *)

C9_CommandOrder ==
    (Checked /\ variant = "main")
    => /\ \A c \in Commands : Count(cmds, c) <= 1
       /\ ~backend.conn => cmds = <<>>
       /\ (backend.conn /\ is_sentinel)
            => (cmds = <<"PING">> /\ (Pass <=> Pong))
       /\ (backend.conn /\ ~is_sentinel)
            => /\ Len(cmds) >= 1
               /\ cmds[1] = "INFO"
               /\ Count(cmds, "CLUSTER INFO") = 1
                    => (cmds[2] = "CLUSTER INFO" /\ backend.infoOk /\ Clustered)
               /\ (backend.infoOk /\ Clustered) => cmds = <<"INFO", "CLUSTER INFO">>

C9_Witness ==
    /\ Checked
    /\ variant = "main"
    /\ ~is_sentinel
    /\ route = "readiness"
    /\ cmds = <<"INFO", "CLUSTER INFO">>
    /\ Pass

C9_WitnessSentinel ==
    /\ Checked
    /\ is_sentinel
    /\ route = "liveness"
    /\ cmds = <<"PING">>
    /\ Pass

(* C10 *)

\* C10: readiness implies liveness on the same backend behaviour: when a
\* readiness probe passes, the liveness check against that behaviour passes,
\* and when a liveness probe does not pass, the readiness check against that
\* behaviour does not pass either.
C10_ReadinessImpliesLiveness ==
    (Checked /\ variant = "main")
    => /\ (route = "readiness" /\ outcome = "OkTrue")
            => check_handler_liveness(is_sentinel, backend).res = "OkTrue"
       /\ (route = "liveness" /\ outcome # "OkTrue")
            => check_handler_readiness(is_sentinel, backend).res # "OkTrue"

C10_Witness ==
    /\ Checked
    /\ variant = "main"
    /\ ~is_sentinel
    /\ route = "readiness"
    /\ ~Clustered
    /\ backend.snap.role = "slave"
    /\ outcome = "OkTrue"
    /\ check_handler_liveness(is_sentinel, backend).res = "OkTrue"

====
